---- MODULE Spec2Model ----
(***************************************************************************)
(* A model of the subtitle-driven frame sampler (video_cut.py) and of the  *)
(* incremental orchestrator built on it (pipeline.py).                     *)
(*                                                                         *)
(* Time is counted in ticks of 5 ms, so that every timestamp on a 10 ms    *)
(* grid has an exact midpoint: 10.0 s = 2000 ticks, 0.2 s = 40 ticks,      *)
(* 0.01 s = 2 ticks, 0.5 s = 100 ticks.                                    *)
(***************************************************************************)
EXTENDS Integers, Sequences, FiniteSets, TLC

(***************************************************************************)
(* Bounds of the model.                                                    *)
(***************************************************************************)
MaxEntries == 2     \* subtitle entries per file
MaxLines == 2       \* manifest lines
MaxPrev == 2        \* fingerprints in a prior set handed to the filter
MaxFaults == 2      \* faults of the environment during one run
MaxTextLines == 3   \* lines of a subtitle text
MaxTicks == 2       \* ticks of the scheduling loop

(***************************************************************************)
(* Program constants.                                                      *)
(***************************************************************************)
TicksPerSecond == 200
WarmUp == 2000            \* 10.0 s, video_cut.py:236
RetryBack == 40           \* 0.2 s, video_cut.py:247
Epsilon == 2              \* 0.01 s, video_cut.py:230
HalfSecond == 100         \* 0.5 s, video_cut.py:86 and 107
DefaultThreshold == 5     \* video_cut.py:208, pipeline.py:91
HashChars == 2            \* characters of an encoded fingerprint in the model

None == <<>>

Max(a, b) == IF a >= b THEN a ELSE b
Min(a, b) == IF a <= b THEN a ELSE b

(***************************************************************************)
(* Perceptual similarity filter.                                           *)
(***************************************************************************)
HexDigits == <<"0", "1", "2", "3", "4", "5", "6", "7",
               "8", "9", "a", "b", "c", "d", "e", "f">>

\* str(hash_value): the fixed-width hexadecimal encoding of a hash value.
RECURSIVE HexStr(_, _)
HexStr(h, width) ==
    IF width = 0 THEN <<>>
    ELSE Append(HexStr(h \div 16, width - 1), HexDigits[(h % 16) + 1])

\* imagehash.phash(img) of the model's images 1..4.
PHash(img) == <<0, 1, 17, 240>>[img]

Images == 1..4
EmptyFile == 0      \* a file of size 0

\* zip(a, b): the pairs of corresponding characters, up to the shorter string.
Zip(a, b) == [i \in 1..Min(Len(a), Len(b)) |-> <<a[i], b[i]>>]

RECURSIVE SumNe(_, _)
SumNe(z, n) ==
    IF n = 0 THEN 0
    ELSE SumNe(z, n - 1) + (IF z[n][1] # z[n][2] THEN 1 ELSE 0)

\* sum(c1 != c2 for c1, c2 in zip(current_hash, prev_hash))
HammingDistance(a, b) == SumNe(Zip(a, b), Len(Zip(a, b)))

WithinLt(d, threshold) == d < threshold
Within(d, threshold) == d <= threshold

\* The loop of is_similar_to_previous over the prior fingerprints.
RECURSIVE AnyWithin(_, _, _)
AnyWithin(current_hash, previous_hashes, threshold) ==
    IF previous_hashes = {} THEN FALSE
    ELSE LET p == CHOOSE x \in previous_hashes : TRUE IN
         IF Within(HammingDistance(current_hash, p), threshold) THEN TRUE
         ELSE AnyWithin(current_hash, previous_hashes \ {p}, threshold)

\* is_similar_to_previous, given the candidate's fingerprint as computed by
\* calculate_image_hash (None when the computation failed).
IsSimilarFailClosed(current_hash, previous_hashes, threshold) ==
    IF previous_hashes = {} THEN FALSE
    ELSE IF current_hash = None THEN TRUE
    ELSE AnyWithin(current_hash, previous_hashes, threshold)
IsSimilarToPrevious(current_hash, previous_hashes, threshold) ==
    IF previous_hashes = {} THEN FALSE
    ELSE IF current_hash = None THEN FALSE
    ELSE AnyWithin(current_hash, previous_hashes, threshold)

(***************************************************************************)
(* Output path resolver.  A name is a sequence of one-character strings.   *)
(***************************************************************************)
PathLimit == 230          \* video_cut.py:203
UploaderMax == 40         \* video_cut.py:200
BaseMax == 80             \* video_cut.py:201

IllegalWinChars == {"<", ">", ":", "\"", "/", "\\", "|", "?", "*"}
Whitespace == {" ", "\t"}

\* _ILLEGAL_WIN_CHARS.sub('_', name)
ReplaceIllegal(name) ==
    [i \in 1..Len(name) |-> IF name[i] \in IllegalWinChars THEN "_" ELSE name[i]]

\* re.sub(r"\s+", " ", cleaned): every run of whitespace becomes one space.
\* The characters kept are those that do not continue a run.
CollapseSpaces(s) ==
    LET keep == {i \in 1..Len(s) :
                    ~(s[i] \in Whitespace /\ i > 1 /\ s[i - 1] \in Whitespace)}
        at(n) == CHOOSE i \in keep : Cardinality({j \in keep : j <= i}) = n
    IN [n \in 1..Cardinality(keep) |->
            IF s[at(n)] \in Whitespace THEN " " ELSE s[at(n)]]

\* str.lstrip and str.rstrip: drop the leading (trailing) characters of chars.
LStrip(s, chars) ==
    LET rest == {i \in 1..Len(s) : s[i] \notin chars}
    IN IF rest = {} THEN <<>>
       ELSE SubSeq(s, CHOOSE i \in rest : \A j \in rest : i <= j, Len(s))

RStrip(s, chars) ==
    LET rest == {i \in 1..Len(s) : s[i] \notin chars}
    IN IF rest = {} THEN <<>>
       ELSE SubSeq(s, 1, CHOOSE i \in rest : \A j \in rest : i >= j)

\* _safe_for_filename
SafeForFilename(name, max_len) ==
    LET cleaned == RStrip(LStrip(CollapseSpaces(ReplaceIllegal(name)), Whitespace),
                          Whitespace)
        trimmed == RStrip(cleaned, {" ", "."})
    IN SubSeq(trimmed, 1, Min(Len(trimmed), max_len))

\* _hash8: the first 8 hexadecimal characters of MD5(s).  The digest is left
\* uninterpreted: its characters are written "#", and the path keeps the
\* digested string (digest_of), so two fallback paths are equal exactly when
\* they digest the same string.
Hash8(s) == <<"#", "#", "#", "#", "#", "#", "#", "#">>

\* len(str(out_root / a / b)): an empty segment adds nothing to the path.
PathLen(root, a, b) ==
    Len(root) + (IF a = <<>> THEN 0 ELSE 1 + Len(a))
              + (IF b = <<>> THEN 0 ELSE 1 + Len(b))

\* _choose_out_dir
ChooseOutDir(out_root, uploader, base) ==
    LET uploader_s == SafeForFilename(uploader, UploaderMax)
        base_s == SafeForFilename(base, BaseMax)
    IN IF PathLen(out_root, uploader_s, base_s) > PathLimit
       THEN [root |-> out_root, uploader |-> uploader_s,
             base |-> <<"v", "i", "d", "_">> \o Hash8(out_root \o uploader \o base),
             digest_of |-> out_root \o uploader \o base]
       ELSE [root |-> out_root, uploader |-> uploader_s, base |-> base_s,
             digest_of |-> <<>>]

(***************************************************************************)
(* Timestamps and frame names.                                             *)
(***************************************************************************)
\* _sec_to_fname_ts: hours, minutes, seconds and milliseconds of t.
SecToFnameTs(t) ==
    LET whole == t \div TicksPerSecond
        ms == (t % TicksPerSecond) * (1000 \div TicksPerSecond)
    IN <<whole \div 3600, (whole \div 60) % 60, whole % 60, ms>>

Roles == <<"start", "mid", "end">>

\* f"{ts_name}_{frame_type}.jpg"
FrameName(t, frame_type) == <<SecToFnameTs(t), frame_type, ".jpg">>

\* The clamped start, mid and end time of an entry (video_cut.py:230-233).
SafeEnd(e, duration) ==
    IF duration > 0 THEN Max(duration - Epsilon, 0) ELSE Max(e.end, e.start)

StartTime(e, duration) == Max(0, Min(e.start, SafeEnd(e, duration)))
EndTime(e, duration) == Max(0, Min(e.end, SafeEnd(e, duration)))
MidTimeUnclamped(e, duration) == (e.start + e.end) \div 2
MidTime(e, duration) ==
    Max(0, Min((StartTime(e, duration) + EndTime(e, duration)) \div 2,
               SafeEnd(e, duration)))

TimePoints(e, duration) ==
    <<StartTime(e, duration), MidTime(e, duration), EndTime(e, duration)>>

\* total = len(entries) if max_subs <= 0 else min(len(entries), max_subs)
Total(entries, max_subs) ==
    IF max_subs <= 0 THEN Len(entries) ELSE Min(Len(entries), max_subs)

(***************************************************************************)
(* State.                                                                  *)
(***************************************************************************)
VARIABLES
    th,          \* th[i]: the frame of the i-th invocation of process_one_video
    fs,          \* the files under the output root: path -> content
    dirs,        \* the directories created under the output root
    log,         \* the diagnostic lines printed so far, as <<tag, subject>>
    hq,          \* a query put to is_similar_to_previous and its answer
    pq,          \* a call of _choose_out_dir and the path it returned
    tq,          \* a subtitle text put to parse_subtitles and what came of it
    manifest,    \* the lines of manifest.jsonl
    args,        \* the command line of the batch runner
    rpc,         \* where the batch runner (video_cut.main) stands
    records,     \* what load_manifest returned
    tasks,       \* the (vpath, spath) pairs of the task list
    collected,   \* the futures whose result the runner has taken
    ppc,         \* where the orchestrator tick (pipeline.main) stands
    now,         \* the clock, in seconds
    start_ts,    \* the start timestamp of the tick
    new_records, \* what _read_new_records returned
    ri,          \* the index of the record the tick is processing
    folder,      \* the entries of the per-video folders next to the videos
    txts,        \* the videos that have a transcript .txt next to them
    tk           \* history: the ticks so far, who appended and who selected

driverVars == <<th, fs, dirs, log>>
runnerVars == <<manifest, args, rpc, records, tasks, collected>>
pipeVars == <<ppc, now, start_ts, new_records, ri, folder, txts, tk>>
vars == <<th, fs, dirs, log, hq, pq, tq, manifest, args, rpc, records, tasks, collected,
          ppc, now, start_ts, new_records, ri, folder, txts, tk>>

\* What a step of process_one_video leaves alone.
outsideDriver == <<hq, pq, tq, manifest, args, rpc, records, tasks, collected,
                   ppc, now, start_ts, new_records, ri, folder, txts, tk>>

TaskIds == 1..MaxLines     \* one call of the driver per manifest line at most

OutRoot == <<"o">>        \* the output root directory
RootDir == [root |-> OutRoot, uploader |-> <<>>, base |-> <<>>, digest_of |-> <<>>]

(***************************************************************************)
(* Subtitle parser, at the level of whole files: a subtitle file is its    *)
(* path, its suffix and the entries its text parses to.                    *)
(***************************************************************************)
Lower(suffix) ==
    CASE suffix = ".VTT" -> ".vtt"
      [] suffix = ".SRT" -> ".srt"
      [] suffix = ".ZIP" -> ".zip"
      [] suffix = ".TXT" -> ".txt"
      [] OTHER -> suffix

\* parse_subtitles: the entries, or the ValueError of an unsupported suffix.
ParseSubtitles(sub) ==
    IF Lower(sub.suffix) \in {".vtt", ".srt"}
    THEN [raised |-> FALSE, entries |-> sub.entries]
    ELSE [raised |-> TRUE, entries |-> <<>>]

\* get_video_duration: 0 when the probe fails or reports nothing.
GetVideoDuration(video) == video.duration

(***************************************************************************)
(* Frame extractor.  One run of the transcoder ends in one of:             *)
(*   "frame"  it wrote the frame at t to the output path;                  *)
(*   "blank"  it wrote a file of size 0;                                   *)
(*   "none"   it returned without writing anything;                        *)
(*   "error"  it raised.                                                   *)
(***************************************************************************)
Outcomes == {"frame", "blank", "none", "error"}

\* The picture of a video at time t: a still video shows one picture, a
\* moving one a new picture every second.
ImageAt(video, t) ==
    IF video.still THEN video.seed
    ELSE ((video.seed + (t \div TicksPerSecond)) % Cardinality(Images)) + 1

\* One transcoder run writing to out_image (overwrite_output).
RunTranscoder(files, video, t, out_image, outcome) ==
    CASE outcome = "frame" -> (out_image :> ImageAt(video, t)) @@ files
      [] outcome = "blank" -> (out_image :> EmptyFile) @@ files
      [] OTHER -> files

\* out_image.exists() and out_image.stat().st_size > 0
ExistsNonEmpty(files, out_image) ==
    out_image \in DOMAIN files /\ files[out_image] # EmptyFile

\* extract_frame: the primary run, the fallback run if the primary raised,
\* then the test of the output file; False and a log line if both raised.
ExtractFrame(files, video, t_seconds, out_image, primary, fallback) ==
    LET t == Max(t_seconds, 0)
        after1 == RunTranscoder(files, video, t, out_image, primary)
        after2 == RunTranscoder(files, video, t, out_image, fallback)
    IN IF primary # "error"
       THEN [ok |-> ExistsNonEmpty(after1, out_image), files |-> after1,
             raised |-> FALSE, wrote |-> primary \in {"frame", "blank"}]
       ELSE IF fallback # "error"
       THEN [ok |-> ExistsNonEmpty(after2, out_image), files |-> after2,
             raised |-> FALSE, wrote |-> fallback \in {"frame", "blank"}]
       ELSE [ok |-> FALSE, files |-> files, raised |-> TRUE, wrote |-> FALSE]

\* calculate_image_hash: the encoded fingerprint, or None when the image
\* cannot be opened or hashed (unreadable says so for a file that exists).
CalculateImageHash(files, image_path, unreadable) ==
    IF image_path \notin DOMAIN files \/ files[image_path] = EmptyFile \/ unreadable
    THEN None
    ELSE HexStr(PHash(files[image_path]), HashChars)

(***************************************************************************)
(* Per-video sampling driver: process_one_video, one action per step.      *)
(* pc of a frame: "idle" (no call), "queued" (submitted, not started),     *)
(* "start", "entry", "extract", "retry", "similar", "delete", "accept",    *)
(* "summary", "done" (returned) and "raised" (left by an exception).       *)
(***************************************************************************)
NoVideo == [uploader |-> <<>>, stem |-> <<>>, ext |-> <<>>, present |-> FALSE,
            duration |-> 0, still |-> TRUE, seed |-> 1]
NoSub == [path |-> <<>>, suffix |-> "", present |-> FALSE, entries |-> <<>>]
NoDir == [root |-> <<>>, uploader |-> <<>>, base |-> <<>>, digest_of |-> <<>>]

\* An exception, by its type and the path its message names (if any).
NoError == [type |-> "", names |-> <<>>]
Error(type, names) == [type |-> type, names |-> names]

\* The frame of a call process_one_video(video, sub, OutRoot, max_subs, threshold).
Frame(video, sub, max_subs, threshold, pc) ==
    [pc |-> pc, video |-> video, sub |-> sub, max_subs |-> max_subs,
     similarity_threshold |-> threshold,
     entries |-> <<>>, duration |-> 0, out_dir |-> NoDir, total |-> 0,
     idx |-> 1, k |-> 1, times |-> <<0, 0, 0>>, ok |-> FALSE,
     saved_hashes |-> {}, saved_count |-> 0, skipped_count |-> 0,
     calls |-> <<>>,     \* history: the extractor calls made for the current frame
     tried |-> {},       \* history: the entries for which extraction was attempted
     error |-> NoError,  \* the exception that left the call, for its future
     judged |-> 0,       \* history: the similarity checks made
     kept |-> {},        \* history: the frames accepted, [out, hash]
     traced |-> FALSE,   \* whether env is being recorded
     before |-> <<>>,    \* history: the files when a repeated call was made
     env |-> {},         \* history: what the environment answered, [key, val]
     faults |-> 0]       \* history: the faults of the environment so far

\* What the environment answered to the question key, recorded for a traced call.
Observe(f, key, val) ==
    IF f.traced THEN f.env \cup {[key |-> key, val |-> val]} ELSE f.env

YesNo(flag) == IF flag THEN "yes" ELSE "no"

\* The content of the file at path, -1 when there is none.
ContentAt(files, path) == IF path \in DOMAIN files THEN files[path] ELSE -1

\* The faults of the environment are bounded per run: a transcoder run that
\* writes no frame, an unreadable file and a refused deletion each count one.
\* A repeated call meets the faults of the first again and has a budget of
\* its own for them.
Cost(outcome) == IF outcome = "frame" THEN 0 ELSE 1
RunCost(primary, fallback) ==
    Cost(primary) + (IF primary = "error" THEN Cost(fallback) ELSE 0)
FlagCost(flag) == IF flag THEN 1 ELSE 0
RECURSIVE FaultsUpTo(_)
FaultsUpTo(n) == IF n = 0 THEN 0 ELSE FaultsUpTo(n - 1) + th[n].faults
Affordable(f, cost) ==
    IF f.traced THEN f.faults + cost <= MaxFaults
    ELSE FaultsUpTo(MaxLines) + cost <= MaxFaults

IdleFrame == Frame(NoVideo, NoSub, 0, DefaultThreshold, "idle")

\* A line that names no video.
NoSubject == <<>>

Say(tag, subject) == log' = log \cup {<<tag, subject>>}

\* out_img of the current frame of th[i]
OutImg(f) == <<f.out_dir, FrameName(f.times[f.k], Roles[f.k])>>

\* Line 225: saved_hashes starts empty, whatever earlier calls recorded.
CarriedHashes(earlier) == earlier
FreshHashes(earlier) == {}

\* Lines 209-227: parse, probe, resolve and create the output directory.
DriverStart(i) ==
    /\ th[i].pc = "start"
    /\ \E readable \in BOOLEAN :
        LET f == [th[i] EXCEPT !.faults = @ + FlagCost(~readable),
                               !.env = Observe(th[i], <<"read", th[i].sub.path>>,
                                               YesNo(readable))]
            parsed == ParseSubtitles(f.sub)
            entries == parsed.entries
            duration == GetVideoDuration(f.video)
            out_dir == ChooseOutDir(OutRoot, f.video.uploader, f.video.stem)
        IN IF ~readable \/ parsed.raised
           THEN /\ Affordable(th[i], FlagCost(~readable))
                /\ th' = [th EXCEPT ![i] =
                             [f EXCEPT !.pc = "raised",
                                       !.error = IF ~readable
                                                 THEN Error("OSError", f.sub.path)
                                                 ELSE Error("ValueError", <<>>)]]
                /\ UNCHANGED <<fs, dirs, log>>
           ELSE IF entries = <<>>
           THEN /\ th' = [th EXCEPT ![i].pc = "done"]
                /\ Say("skip_no_entries", f.sub.path)
                /\ UNCHANGED <<fs, dirs>>
           ELSE /\ th' = [th EXCEPT ![i].pc = "entry", ![i].entries = entries,
                                    ![i].duration = duration,
                                    ![i].out_dir = out_dir,
                                    ![i].total = Total(entries, f.max_subs),
                                    ![i].saved_hashes = FreshHashes(
                                        UNION {th[j].saved_hashes :
                                                  j \in TaskIds \ {i}}),
                                    ![i].idx = 1]
                /\ dirs' = dirs \cup {out_dir}
                /\ log' = log \cup {<<"processing", f.video.stem>>}
                              \cup (IF duration <= 0
                                    THEN {<<"warn_duration", f.video.stem>>} ELSE {})
                /\ UNCHANGED fs
    /\ UNCHANGED outsideDriver

\* Lines 229-239: the head of the loop over entries[:total].
InWarmUpBelow(start_time) == start_time < WarmUp - Epsilon
InWarmUp(start_time) == start_time < WarmUp

DriverEntry(i) ==
    /\ th[i].pc = "entry"
    /\ LET f == th[i] IN
       IF f.idx > f.total
       THEN th' = [th EXCEPT ![i].pc = "summary"]
       ELSE LET times == TimePoints(f.entries[f.idx], f.duration) IN
            IF InWarmUp(times[1])
            THEN th' = [th EXCEPT ![i].idx = f.idx + 1]
            ELSE th' = [th EXCEPT ![i].pc = "extract", ![i].times = times,
                                  ![i].k = 1]
    /\ UNCHANGED <<fs, dirs, log>>
    /\ UNCHANGED outsideDriver

\* The frame after the current one: the next time point, or the next entry.
NextFrame(f) ==
    IF f.k < 3 THEN [f EXCEPT !.pc = "extract", !.k = f.k + 1]
    ELSE [f EXCEPT !.pc = "entry", !.idx = f.idx + 1]

\* if not ok and t > 0
NeedRetryAlways(ok, t) == TRUE
NeedRetry(ok, t) == ~ok /\ t > 0

\* max(0.0, t - 0.2)
RetryTimeSame(t) == t
RetryTime(t) == Max(0, t - RetryBack)

\* One call of extract_frame by the driver at time t_call.
Extraction(i, t_call, history, primary, fallback) ==
    LET f == [th[i] EXCEPT !.faults = @ + RunCost(primary, fallback)]
        out_img == OutImg(f)
        r == ExtractFrame(fs, f.video, t_call, out_img, primary, fallback)
        seen == Observe(f, <<"primary", t_call>>, primary)
        g == [f EXCEPT !.ok = r.ok,
                       !.calls = Append(history,
                                        [idx |-> f.idx, k |-> f.k, t |-> t_call,
                                         out |-> out_img, ok |-> r.ok,
                                         wrote |-> r.wrote]),
                       !.tried = f.tried \cup {f.idx},
                       !.env = IF primary = "error"
                               THEN Observe([f EXCEPT !.env = seen],
                                            <<"fallback", t_call>>, fallback)
                               ELSE seen]
    IN /\ Affordable(th[i], RunCost(primary, fallback))
       /\ primary # "error" => fallback = "frame"
       /\ fs' = r.files
       /\ dirs' = dirs \cup {f.out_dir}
       /\ log' = IF r.raised THEN log \cup {<<"ffmpeg_failed", NoSubject>>} ELSE log
       /\ th' = [th EXCEPT ![i] =
                    IF f.pc = "extract" /\ NeedRetry(r.ok, f.times[f.k])
                    THEN [g EXCEPT !.pc = "retry"]
                    ELSE IF r.ok THEN [g EXCEPT !.pc = "similar"]
                    ELSE NextFrame(g)]

\* Line 245: ok = extract_frame(video_path, t, out_img)
DriverExtract(i) ==
    /\ th[i].pc = "extract"
    /\ \E primary \in Outcomes, fallback \in Outcomes :
          Extraction(i, th[i].times[th[i].k], <<>>, primary, fallback)
    /\ UNCHANGED outsideDriver

\* Line 247: ok = extract_frame(video_path, max(0.0, t - 0.2), out_img)
DriverRetry(i) ==
    /\ th[i].pc = "retry"
    /\ \E primary \in Outcomes, fallback \in Outcomes :
          Extraction(i, RetryTime(th[i].times[th[i].k]), th[i].calls,
                     primary, fallback)
    /\ UNCHANGED outsideDriver

\* Line 250: is_similar_to_previous(out_img, saved_hashes, similarity_threshold)
DriverSimilar(i) ==
    /\ th[i].pc = "similar"
    /\ \E unreadable \in BOOLEAN :
        LET f == [th[i] EXCEPT !.faults = @ + FlagCost(unreadable),
                               !.env = IF th[i].saved_hashes = {} THEN @
                                       ELSE Observe(th[i], <<"hash", ContentAt(fs, OutImg(th[i]))>>,
                                                    YesNo(unreadable))]
            current_hash == CalculateImageHash(fs, OutImg(f), unreadable)
            similar == IsSimilarToPrevious(current_hash, f.saved_hashes,
                                           f.similarity_threshold)
        IN /\ Affordable(th[i], FlagCost(unreadable))
           /\ unreadable => f.saved_hashes # {}
           /\ th' = [th EXCEPT ![i] =
                        [f EXCEPT !.pc = IF similar THEN "delete" ELSE "accept",
                                  !.judged = f.judged + 1]]
           /\ log' = IF f.saved_hashes # {} /\ current_hash = None
                     THEN log \cup {<<"warn_hash", f.out_dir.base>>} ELSE log
    /\ UNCHANGED <<fs, dirs>>
    /\ UNCHANGED outsideDriver

\* out_img.unlink(missing_ok=True)
Unlink(files, path) == [q \in DOMAIN files \ {path} |-> files[q]]

\* Lines 251-253: the near-duplicate is deleted and counted as skipped.
DriverDelete(i) ==
    /\ th[i].pc = "delete"
    /\ \E denied \in BOOLEAN :
        LET f == [th[i] EXCEPT !.faults = @ + FlagCost(denied),
                               !.env = Observe(th[i], <<"unlink", OutImg(th[i])>>,
                                               YesNo(denied))] IN
        IF denied
        THEN /\ Affordable(th[i], 1)
             /\ th' = [th EXCEPT ![i] =
                          [f EXCEPT !.pc = "raised",
                                    !.error = Error("OSError", f.out_dir.base)]]
             /\ UNCHANGED <<fs, log>>
        ELSE /\ fs' = Unlink(fs, OutImg(f))
             /\ th' = [th EXCEPT ![i] =
                          NextFrame([f EXCEPT !.skipped_count = f.skipped_count + 1])]
             /\ Say("skip_similar", f.video.stem)
    /\ UNCHANGED dirs
    /\ UNCHANGED outsideDriver

\* Lines 255-262: the frame is kept and counted as saved.
DriverAccept(i) ==
    /\ th[i].pc = "accept"
    /\ \E unreadable \in BOOLEAN :
        LET current_hash == CalculateImageHash(fs, OutImg(th[i]), unreadable)
            f == [th[i] EXCEPT !.faults = @ + FlagCost(unreadable),
                               !.env = Observe(th[i], <<"hash", ContentAt(fs, OutImg(th[i]))>>,
                                               YesNo(unreadable)),
                               !.kept = @ \cup {[out |-> OutImg(th[i]),
                                                 hash |-> current_hash]}]
        IN /\ Affordable(th[i], FlagCost(unreadable))
           /\ IF current_hash # None
              THEN /\ th' = [th EXCEPT ![i] =
                               NextFrame([f EXCEPT
                                   !.saved_hashes = f.saved_hashes \cup {current_hash},
                                   !.saved_count = f.saved_count + 1])]
                   /\ Say("save", f.video.stem)
              ELSE /\ th' = [th EXCEPT ![i] =
                               NextFrame([f EXCEPT !.saved_count = f.saved_count + 1])]
                   /\ log' = log \cup {<<"warn_hash", f.out_dir.base>>,
                                       <<"save_unhashed", f.video.stem>>}
    /\ UNCHANGED <<fs, dirs>>
    /\ UNCHANGED outsideDriver

\* Line 264: the summary of the video.
DriverSummary(i) ==
    /\ th[i].pc = "summary"
    /\ th' = [th EXCEPT ![i].pc = "done"]
    /\ Say("summary", th[i].video.stem)
    /\ UNCHANGED <<fs, dirs>>
    /\ UNCHANGED outsideDriver

(***************************************************************************)
(* Inputs.                                                                 *)
(***************************************************************************)
Entry(a, b) == [start |-> a, end |-> b]

\* Entries as the parsers return them (end > start), on a 10 ms grid:
\* 9.99-12 s, 10-11 s, 12-14 s and 30-32 s.
EntryPool == {Entry(1998, 2400), Entry(2000, 2200),
              Entry(2400, 2800), Entry(6000, 6400)}

RECURSIVE SeqsUpTo(_, _)
SeqsUpTo(S, n) ==
    IF n = 0 THEN {<<>>}
    ELSE LET shorter == SeqsUpTo(S, n - 1)
         IN shorter \cup {Append(q, x) : q \in shorter, x \in S}

\* Probed durations: unknown, 5 ms, 13 s and 100 s.
DurationPool == {0, 1, 2600, 20000}

Mp4 == <<".", "m", "p", "4">>
Mkv == <<".", "m", "k", "v">>

Video(uploader, stem, ext, present, duration, still) ==
    [uploader |-> uploader, stem |-> stem, ext |-> ext, present |-> present,
     duration |-> duration, still |-> still, seed |-> 1]

Sub(path, suffix, present, entries) ==
    [path |-> path, suffix |-> suffix, present |-> present, entries |-> entries]

FingerprintPool == {HexStr(PHash(img), HashChars) : img \in Images}

(***************************************************************************)
(* Initial values of the parts a specification does not exercise.          *)
(***************************************************************************)
NoArgs == [max_subs |-> 0, similarity_threshold |-> DefaultThreshold,
           only_video |-> <<>>, workers |-> 1, manifest_present |-> TRUE]
NoQuery == [current_hash |-> None, previous_hashes |-> {}, threshold |-> 0,
            asked |-> FALSE, answer |-> FALSE]

DriverIdle ==
    /\ th = [i \in TaskIds |-> IdleFrame]
    /\ fs = <<>>
    /\ dirs = {}
    /\ log = {}

RunnerIdle ==
    /\ manifest = <<>>
    /\ args = NoArgs
    /\ rpc = "idle"
    /\ records = <<>>
    /\ tasks = <<>>
    /\ collected = {}

\* n: the number of the tick under way; by[j]: the tick whose acquisition
\* appended line j of the manifest (0: the line was there before the first
\* tick); sel: the pairs <<j, n>> of a line j and a tick n that selected it.
PipeIdle ==
    /\ ppc = "idle"
    /\ now = 0
    /\ start_ts = 0
    /\ new_records = <<>>
    /\ ri = 1
    /\ folder = <<>>
    /\ txts = {}
    /\ tk = [n |-> 0, by |-> <<>>, sel |-> {}]

HashIdle == hq = NoQuery

NoPathQuery == [out_root |-> <<>>, uploader |-> <<>>, base |-> <<>>,
                asked |-> FALSE, d |-> NoDir]
PathIdle == pq = NoPathQuery

TextIdle == tq = [suffix |-> "", lines |-> <<>>, asked |-> FALSE,
                  raised |-> FALSE, entries |-> <<>>]

(***************************************************************************)
(* SpecHash: is_similar_to_previous on its own.                            *)
(***************************************************************************)
Thresholds == -1..(HashChars + 1)

InitHash ==
    /\ \E c \in FingerprintPool \cup {None}, T \in Thresholds :
       \E P \in {Q \in SUBSET FingerprintPool : Cardinality(Q) <= MaxPrev} :
          hq = [current_hash |-> c, previous_hashes |-> P, threshold |-> T,
                asked |-> FALSE, answer |-> FALSE]
    /\ DriverIdle /\ RunnerIdle /\ PipeIdle /\ PathIdle /\ TextIdle

AskSimilar ==
    /\ ~hq.asked
    /\ hq' = [hq EXCEPT !.asked = TRUE,
                        !.answer =
                 IsSimilarToPrevious(hq.current_hash, hq.previous_hashes,
                                     hq.threshold)]
    /\ UNCHANGED <<driverVars, runnerVars, pipeVars, pq, tq>>

NextHash == AskSimilar

SpecHash == InitHash /\ [][NextHash]_vars

(***************************************************************************)
(* SpecPath: _choose_out_dir on its own.                                   *)
(***************************************************************************)
\* The name made of n times the character ch.
Rep(ch, n) == [i \in 1..n |-> ch]

\* Output roots of 1 to 240 characters; 108 is the longest root for which
\* root/40/80 fits in 230 characters, 176 the longest for root/40/vid_{8}.
RootPool == {Rep("r", n) : n \in {1, 60, 108, 109, 176, 177, 240}}

UploaderPool ==
    {Rep("u", n) : n \in {1, 39, 40, 41}}
        \cup {<<" ", "a", ":", " ", "\t", "b", ".", " ">>, <<".", ".">>, <<>>}

BasePool ==
    {Rep("b", n) : n \in {1, 79, 80, 81}}
        \cup {<<"x", "/", "y", "?">>, <<" ">>}

InitPath ==
    /\ \E out_root \in RootPool, uploader \in UploaderPool, base \in BasePool :
          pq = [out_root |-> out_root, uploader |-> uploader, base |-> base,
                asked |-> FALSE, d |-> NoDir]
    /\ DriverIdle /\ HashIdle /\ RunnerIdle /\ PipeIdle /\ TextIdle

AskOutDir ==
    /\ ~pq.asked
    /\ pq' = [pq EXCEPT !.asked = TRUE,
                        !.d = ChooseOutDir(pq.out_root, pq.uploader, pq.base)]
    /\ UNCHANGED <<driverVars, runnerVars, pipeVars, hq, tq>>

NextPath == AskOutDir

SpecPath == InitPath /\ [][NextPath]_vars

(***************************************************************************)
(* SpecParse: the subtitle parsers at the level of the text.  A text is a  *)
(* sequence of lines, a line the sequence of its words (the line is the    *)
(* words joined by single spaces; the empty line has none), a word a       *)
(* sequence of characters.  Times are in ticks of 5 ms.  The numbers of    *)
(* the pool are written with decimal digits only.                          *)
(***************************************************************************)
Arrow == <<"-", "-", ">">>

\* The line as written: its words joined by single spaces.
RECURSIVE Text(_)
Text(words) ==
    IF words = <<>> THEN <<>>
    ELSE IF Len(words) = 1 THEN words[1]
    ELSE words[1] \o <<" ">> \o Text(Tail(words))

\* s.split(sep): the pieces of s between the occurrences of the element sep.
SplitOn(s, sep) ==
    LET at == {i \in 1..Len(s) : s[i] = sep}
        cut(n) == IF n = 0 THEN 0
                  ELSE IF n = Cardinality(at) + 1 THEN Len(s) + 1
                  ELSE CHOOSE i \in at : Cardinality({j \in at : j < i}) = n - 1
    IN [n \in 1..(Cardinality(at) + 1) |-> SubSeq(s, cut(n - 1) + 1, cut(n) - 1)]

IsDigits(s) ==
    /\ s # <<>>
    /\ \A i \in 1..Len(s) :
          s[i] \in {"0", "1", "2", "3", "4", "5", "6", "7", "8", "9"}

DigitVal(c) == CHOOSE n \in 0..9 : HexDigits[n + 1] = c

RECURSIVE Pow10(_)
Pow10(n) == IF n = 0 THEN 1 ELSE 10 * Pow10(n - 1)

\* int(s) of a string of decimal digits
RECURSIVE IntOf(_)
IntOf(s) ==
    IF s = <<>> THEN 0
    ELSE 10 * IntOf(SubSeq(s, 1, Len(s) - 1)) + DigitVal(s[Len(s)])

\* float(s), in ticks: digits, with at most one point and a digit on one side
\* of it at least; anything else raises (ok is FALSE).
FloatOf(s) ==
    LET t == RStrip(LStrip(s, Whitespace), Whitespace)
        parts == SplitOn(t, ".")
        whole == parts[1]
        frac == parts[2]
    IN IF Len(parts) = 1 /\ IsDigits(whole)
       THEN [ok |-> TRUE, val |-> IntOf(whole) * TicksPerSecond]
       ELSE IF /\ Len(parts) = 2
               /\ whole = <<>> \/ IsDigits(whole)
               /\ frac = <<>> \/ IsDigits(frac)
               /\ whole # <<>> \/ frac # <<>>
       THEN [ok |-> TRUE,
             val |-> IntOf(whole) * TicksPerSecond
                        + (IntOf(frac) * TicksPerSecond) \div Pow10(Len(frac))]
       ELSE [ok |-> FALSE, val |-> 0]

\* _parse_time_to_seconds
ParseTimeToSeconds(ts) ==
    LET stripped == RStrip(LStrip(ts, Whitespace), Whitespace)
        t == [i \in 1..Len(stripped) |->
                 IF stripped[i] = "," THEN "." ELSE stripped[i]]
        parts == SplitOn(t, ":")
        \* int(x): decimal digits, white space around them allowed
        digits(x) == RStrip(LStrip(x, Whitespace), Whitespace)
    IN IF Len(parts) = 3
       THEN IF /\ IsDigits(digits(parts[1])) /\ IsDigits(digits(parts[2]))
               /\ FloatOf(parts[3]).ok
            THEN IntOf(digits(parts[1])) * 3600 * TicksPerSecond
                    + IntOf(digits(parts[2])) * 60 * TicksPerSecond
                    + FloatOf(parts[3]).val
            ELSE 0
       ELSE IF Len(parts) = 2
       THEN IF IsDigits(digits(parts[1])) /\ FloatOf(parts[2]).ok
            THEN IntOf(digits(parts[1])) * 60 * TicksPerSecond + FloatOf(parts[2]).val
            ELSE 0
       ELSE IF FloatOf(t).ok THEN FloatOf(t).val ELSE 0

\* (\d{1,2}:)?\d{2}:\d{2}[\.,]\d{1,3} matched against the whole of s
IsVttStamp(s) ==
    \E h \in {0, 2, 3} :
        LET r == SubSeq(s, h + 1, Len(s)) IN
        /\ h <= Len(s)
        /\ h > 0 => (IsDigits(SubSeq(s, 1, h - 1)) /\ s[h] = ":")
        /\ Len(r) \in 7..9
        /\ IsDigits(SubSeq(r, 1, 2)) /\ r[3] = ":"
        /\ IsDigits(SubSeq(r, 4, 5)) /\ r[6] \in {".", ","}
        /\ IsDigits(SubSeq(r, 7, Len(r)))

\* time_re.match(line): a stamp, " --> " and a stamp at the start of the line.
TimeReMatch(line) ==
    /\ Len(line) >= 3
    /\ IsVttStamp(line[1])
    /\ line[2] = Arrow
    /\ \E n \in 1..Len(line[3]) : IsVttStamp(SubSeq(line[3], 1, n))

\* if end_s <= start_s: end_s = start_s + 0.5
Normalised(start_s, end_s) ==
    [start |-> start_s,
     end |-> IF end_s <= start_s THEN start_s + HalfSecond ELSE end_s]

\* The first line at or after i that is empty (not empty), or one past the
\* last line.
NextBlank(lines, i) ==
    LET at == {j \in i..Len(lines) : lines[j] = <<>>} \cup {Max(i, Len(lines) + 1)}
    IN CHOOSE j \in at : \A m \in at : j <= m

NextFilled(lines, i) ==
    LET at == {j \in i..Len(lines) : lines[j] # <<>>} \cup {Max(i, Len(lines) + 1)}
    IN CHOOSE j \in at : \A m \in at : j <= m

\* lines[0].strip().upper().startswith("WEBVTT")
HasHeader(lines) ==
    /\ lines # <<>>
    /\ Len(Text(lines[1])) >= 6
    /\ SubSeq(Text(lines[1]), 1, 6) \in
          {<<"W", "E", "B", "V", "T", "T">>, <<"w", "e", "b", "v", "t", "t">>}

\* The loop of _parse_vtt from line i on.
RECURSIVE VttFrom(_, _, _)
VttFrom(lines, i, entries) ==
    IF i > Len(lines) THEN entries
    ELSE IF ~TimeReMatch(lines[i]) THEN VttFrom(lines, i + 1, entries)
    ELSE LET parts == SplitOn(lines[i], Arrow) IN
         IF Len(parts) # 2 THEN VttFrom(lines, i + 1, entries)
         ELSE LET right == IF parts[2] = <<>> THEN <<>> ELSE parts[2][1]
                  start_s == ParseTimeToSeconds(Text(parts[1]))
                  end_s == ParseTimeToSeconds(right)
              IN VttFrom(lines, NextFilled(lines, NextBlank(lines, i + 1)),
                         Append(entries, Normalised(start_s, end_s)))

\* _parse_vtt
ParseVtt(lines) ==
    [raised |-> FALSE,
     entries |-> VttFrom(lines, IF HasHeader(lines) THEN 2 ELSE 1, <<>>)]

\* The loop of _parse_srt over the blocks from line i on; the unpacking of
\* time_line.split("-->") raises unless there are two pieces.
RECURSIVE SrtFrom(_, _, _)
SrtFrom(lines, i, entries) ==
    IF i > Len(lines) THEN [raised |-> FALSE, entries |-> entries]
    ELSE IF lines[i] = <<>> THEN SrtFrom(lines, i + 1, entries)
    ELSE LET after == NextBlank(lines, i)
             block == SubSeq(lines, i, after - 1)
             time_idx == IF IsDigits(Text(block[1])) THEN 2 ELSE 1
         IN IF time_idx > Len(block) THEN SrtFrom(lines, after, entries)
            ELSE LET time_line == block[time_idx]
                     parts == SplitOn(time_line, Arrow)
                 IN IF Len(parts) = 1 THEN SrtFrom(lines, after, entries)
                    ELSE IF Len(parts) # 2
                    THEN [raised |-> TRUE, entries |-> <<>>]
                    ELSE SrtFrom(lines, after,
                                 Append(entries,
                                        Normalised(ParseTimeToSeconds(Text(parts[1])),
                                                   ParseTimeToSeconds(Text(parts[2])))))

\* _parse_srt
ParseSrt(lines) == SrtFrom(lines, 1, <<>>)

\* parse_subtitles on the text of a file with the given suffix
ParseSubtitleText(suffix, lines) ==
    IF Lower(suffix) = ".vtt" THEN ParseVtt(lines)
    ELSE IF Lower(suffix) = ".srt" THEN ParseSrt(lines)
    ELSE [raised |-> TRUE, entries |-> <<>>]

\* Lines of the words: the stamps 10 s, 11 s and 12.5 s as the two formats
\* write them, a stamp that is no number, a counter, a word and the header.
TextLinePool ==
    LET V10 == <<"0", "0", ":", "1", "0", ".", "0", "0", "0">>
        V11 == <<"0", "0", ":", "1", "1", ".", "0", "0", "0">>
        S10 == <<"0", "0", ":", "0", "0", ":", "1", "0", ",", "0", "0", "0">>
        S12 == <<"0", "0", ":", "0", "0", ":", "1", "2", ",", "5">>
        BadStampWord == <<"0", "0", ":", "1", "x", ".", "0", "0", "0">>
        CounterWord == <<"1">>
        Word == <<"h", "i">>
        HeaderWord == <<"W", "E", "B", "V", "T", "T">>
    IN {<<>>, <<HeaderWord>>, <<CounterWord>>, <<Word>>,
        <<V10, Arrow, V11>>, <<S10, Arrow, S12>>,
        <<V11, Arrow, V10>>,
        <<S10, Arrow, S12, Word>>,
        <<BadStampWord, Arrow, V11>>,
        <<V10, V11>>,
        <<V10, Arrow, V11, Arrow, S12>>}

InitParse ==
    /\ \E suffix \in {".vtt", ".SRT", ".txt"},
          lines \in SeqsUpTo(TextLinePool, MaxTextLines) :
          tq = [suffix |-> suffix, lines |-> lines, asked |-> FALSE,
                raised |-> FALSE, entries |-> <<>>]
    /\ DriverIdle /\ HashIdle /\ PathIdle /\ RunnerIdle /\ PipeIdle

AskParse ==
    /\ ~tq.asked
    /\ LET r == ParseSubtitleText(tq.suffix, tq.lines) IN
       tq' = [tq EXCEPT !.asked = TRUE, !.raised = r.raised,
                        !.entries = r.entries]
    /\ UNCHANGED <<driverVars, runnerVars, pipeVars, hq, pq>>

NextParse == AskParse

SpecParse == InitParse /\ [][NextParse]_vars

(***************************************************************************)
(* SpecVideo: one call of process_one_video.                               *)
(***************************************************************************)
InitVideo ==
    /\ \E entries \in SeqsUpTo(EntryPool, MaxEntries), duration \in DurationPool,
          still \in BOOLEAN, suffix \in {".vtt", ".SRT", ".txt"},
          max_subs \in 0..1, threshold \in 0..1 :
       /\ suffix # ".vtt" => (Len(entries) = 1 /\ max_subs = 0 /\ threshold = 0)
       /\ th = [i \in TaskIds |->
                   IF i = 1
                   THEN Frame(Video(<<"u">>, <<"a">>, Mp4, TRUE, duration, still),
                              Sub(<<"a", ".", "s">>, suffix, TRUE, entries),
                              max_subs, threshold, "start")
                   ELSE IdleFrame]
    /\ fs = <<>>
    /\ dirs = {}
    /\ log = {}
    /\ HashIdle /\ PathIdle /\ TextIdle /\ RunnerIdle /\ PipeIdle

DriverStep(i) ==
    \/ DriverStart(i)
    \/ DriverEntry(i)
    \/ DriverExtract(i)
    \/ DriverRetry(i)
    \/ DriverSimilar(i)
    \/ DriverDelete(i)
    \/ DriverAccept(i)
    \/ DriverSummary(i)

NextVideo == DriverStep(1)

SpecVideo == InitVideo /\ [][NextVideo]_vars

(***************************************************************************)
(* SpecTwice: process_one_video called twice in sequence with the same     *)
(* arguments, the transcoder, the fingerprint function and the file system *)
(* answering the same question the same way each time.                     *)
(***************************************************************************)
InitTwice ==
    /\ \E entries \in SeqsUpTo(EntryPool, MaxEntries), duration \in DurationPool,
          still \in BOOLEAN, max_subs \in 0..1, threshold \in 0..1 :
       th = [i \in TaskIds |->
                IF i = 1
                THEN [Frame(Video(<<"u">>, <<"a">>, Mp4, TRUE, duration, still),
                            Sub(<<"a", ".", "s">>, ".vtt", TRUE, entries),
                            max_subs, threshold, "start")
                        EXCEPT !.traced = TRUE]
                ELSE IdleFrame]
    /\ fs = <<>>
    /\ dirs = {}
    /\ log = {}
    /\ HashIdle /\ PathIdle /\ TextIdle /\ RunnerIdle /\ PipeIdle

\* The second call, made when the first has returned.
Rerun ==
    /\ th[1].pc = "done"
    /\ th[2].pc = "idle"
    /\ th' = [th EXCEPT ![2] =
                 [Frame(th[1].video, th[1].sub, th[1].max_subs,
                        th[1].similarity_threshold, "start")
                     EXCEPT !.traced = TRUE, !.before = fs]]
    /\ UNCHANGED <<fs, dirs, log>>
    /\ UNCHANGED outsideDriver

\* No question was answered in two ways.
Deterministic ==
    \A a, b \in th[1].env \cup th[2].env : a.key = b.key => a.val = b.val

NextTwice ==
    \/ DriverStep(1) /\ Deterministic'
    \/ Rerun
    \/ DriverStep(2) /\ Deterministic'

SpecTwice == InitTwice /\ [][NextTwice]_vars

(***************************************************************************)
(* The manifest.  A line is blank, "garbage" (not JSON), "scalar" (JSON     *)
(* that is no object) or an "object" with the fields the readers consume;  *)
(* created_at is absent, a number, or text that int() refuses.             *)
(***************************************************************************)
NoStamp == [given |-> FALSE, numeric |-> TRUE, value |-> 0]
Stamp(n) == [given |-> TRUE, numeric |-> TRUE, value |-> n]
BadStamp == [given |-> TRUE, numeric |-> FALSE, value |-> 0]

Line(kind, video, sub, created_at) ==
    [kind |-> kind, video_path |-> video, subtitle_path |-> sub,
     created_at |-> created_at]

Object(video, sub, created_at) == Line("object", video, sub, created_at)
Blank == Line("blank", NoVideo, NoSub, NoStamp)
Garbage == Line("garbage", NoVideo, NoSub, NoStamp)
Scalar == Line("scalar", NoVideo, NoSub, NoStamp)

\* json.loads(line) succeeds.
IsJson(line) == line.kind \in {"object", "scalar"}

\* load_manifest: the lines that are not blank and that json.loads accepts.
Loadable(line) == line.kind # "blank" /\ IsJson(line)

LoadManifest(lines) == SelectSeq(lines, Loadable)

\* vpath.name
FileName(video) == video.stem \o video.ext

\* args.only_video in vpath.name
Contains(name, part) ==
    \E at \in 0..(Len(name) - Len(part)) :
        SubSeq(name, at + 1, at + Len(part)) = part

\* Lines 309-315: whether a record becomes a task.
Eligible(rec, only_video) ==
    /\ rec.video_path # NoVideo /\ rec.subtitle_path # NoSub
    /\ only_video = <<>> \/ Contains(FileName(rec.video_path), only_video)
    /\ rec.video_path.present /\ rec.subtitle_path.present

\* Lines 307-316: the task list, or the AttributeError of rec.get on a record
\* that is no object.
RECURSIVE BuildTasks(_, _)
BuildTasks(recs, only_video) ==
    IF recs = <<>> THEN [raised |-> FALSE, tasks |-> <<>>]
    ELSE IF Head(recs).kind # "object" THEN [raised |-> TRUE, tasks |-> <<>>]
    ELSE LET rest == BuildTasks(Tail(recs), only_video)
             mine == IF Eligible(Head(recs), only_video)
                     THEN <<[video |-> Head(recs).video_path,
                             sub |-> Head(recs).subtitle_path]>>
                     ELSE <<>>
         IN [raised |-> rest.raised, tasks |-> mine \o rest.tasks]

(***************************************************************************)
(* Concurrent batch runner: video_cut.main.                                *)
(* rpc: "idle", "load", "build", "submit", "collect", "returned" and       *)
(* "crashed" (an exception left main).                                     *)
(***************************************************************************)
outsideRunner == <<hq, pq, tq, ppc, now, start_ts, new_records, ri, folder, txts,
                   tk>>

Submitted == {i \in TaskIds : th[i].pc # "idle"}
Resolved == {i \in TaskIds : th[i].pc \in {"done", "raised"}}
Running == {i \in TaskIds : th[i].pc \notin {"idle", "queued", "done", "raised"}}

\* Lines 297-304: load the manifest.
RunnerLoad ==
    /\ rpc = "load"
    /\ LET loaded == IF args.manifest_present THEN LoadManifest(manifest) ELSE <<>> IN
       /\ records' = loaded
       /\ dirs' = dirs \cup {RootDir}
       /\ rpc' = IF loaded = <<>> THEN "returned" ELSE "build"
       /\ log' = log \cup (IF args.manifest_present THEN {}
                           ELSE {<<"warn_no_manifest", NoSubject>>})
                     \cup (IF loaded = <<>> THEN {<<"no_records", NoSubject>>} ELSE {})
    /\ UNCHANGED <<th, fs, manifest, args, tasks, collected>>
    /\ UNCHANGED outsideRunner

\* Lines 306-322: build the task list.
RunnerBuild ==
    /\ rpc = "build"
    /\ LET built == BuildTasks(records, args.only_video) IN
       IF built.raised
       THEN /\ rpc' = "crashed"
            /\ UNCHANGED <<tasks, log>>
       ELSE /\ tasks' = built.tasks
            /\ rpc' = IF built.tasks = <<>> THEN "returned" ELSE "submit"
            /\ log' = log \cup {IF built.tasks = <<>>
                                THEN <<"no_eligible_video", NoSubject>>
                                ELSE <<"launch", NoSubject>>}
    /\ UNCHANGED <<th, fs, dirs, manifest, args, records, collected>>
    /\ UNCHANGED outsideRunner

\* Lines 325-330: ex.submit(process_one_video, ...) for the next task.
RunnerSubmit ==
    /\ rpc = "submit"
    /\ LET i == Cardinality(Submitted) + 1 IN
       /\ th' = [th EXCEPT ![i] = Frame(tasks[i].video, tasks[i].sub, args.max_subs,
                                        args.similarity_threshold, "queued")]
       /\ rpc' = IF i = Len(tasks) THEN "collect" ELSE "submit"
    /\ UNCHANGED <<fs, dirs, log, manifest, args, records, tasks, collected>>
    /\ UNCHANGED outsideRunner

\* ThreadPoolExecutor(max_workers=max(1, args.workers)): a free worker takes
\* the oldest queued task.
WorkerStart(i) ==
    /\ th[i].pc = "queued"
    /\ \A j \in TaskIds : th[j].pc = "queued" => i <= j
    /\ Cardinality(Running) < Max(1, args.workers)
    /\ th' = [th EXCEPT ![i].pc = "start"]
    /\ UNCHANGED <<fs, dirs, log>>
    /\ UNCHANGED outsideDriver

\* Lines 334-337: what the runner does with a future's result.
OnResultReraise(raised) == IF raised THEN "crashed" ELSE "collect"
OnResult(raised) == "collect"

\* Lines 333-337: as_completed yields a resolved future; its exception, if
\* any, is caught and logged.
RunnerCollect(i) ==
    /\ rpc = "collect"
    /\ i \in Resolved \ collected
    /\ collected' = collected \cup {i}
    /\ rpc' = OnResult(th[i].pc = "raised")
    /\ log' = IF th[i].pc = "raised"
              THEN log \cup {<<"error_thread", th[i].error.names>>} ELSE log
    /\ UNCHANGED <<th, fs, dirs, manifest, args, records, tasks>>
    /\ UNCHANGED outsideRunner

\* The loop over as_completed(futures) ends when every future was yielded.
SomeCollected == collected # {}
AllCollected == collected = 1..Len(tasks)

\* Lines 338-339: the pool is shut down and the runner reports completion.
RunnerFinish ==
    /\ rpc = "collect"
    /\ AllCollected
    /\ rpc' = "returned"
    /\ Say("all_done", NoSubject)
    /\ UNCHANGED <<th, fs, dirs, manifest, args, records, tasks, collected>>
    /\ UNCHANGED outsideRunner

(***************************************************************************)
(* SpecBatch: one run of the batch runner.                                 *)
(***************************************************************************)
\* Two videos that resolve to one output directory, and a third.
VideoA == Video(<<"u">>, <<"a">>, Mp4, TRUE, 2600, TRUE)
VideoA2 == Video(<<"u">>, <<"a">>, Mkv, TRUE, 0, FALSE)
VideoB == Video(<<"u">>, <<"b">>, Mp4, TRUE, 2600, FALSE)
VideoGone == Video(<<"u">>, <<"c">>, Mp4, FALSE, 0, TRUE)

SubA == Sub(<<"a", ".", "v">>, ".vtt", TRUE, <<Entry(2000, 2200)>>)
SubA2 == Sub(<<"a", ".", "s">>, ".srt", TRUE, <<Entry(2000, 2200)>>)
SubB == Sub(<<"b", ".", "v">>, ".vtt", TRUE, <<Entry(1998, 2400)>>)
SubText == Sub(<<"b", ".", "t">>, ".txt", TRUE, <<>>)
SubEmpty == Sub(<<"e", ".", "v">>, ".vtt", TRUE, <<>>)

LinePool ==
    {Object(VideoA, SubA, Stamp(0)), Object(VideoA2, SubA2, Stamp(0)),
     Object(VideoB, SubB, Stamp(0)), Object(VideoB, SubText, Stamp(0)),
     Object(VideoA, SubEmpty, Stamp(0)), Object(VideoGone, SubA, Stamp(0)),
     Object(NoVideo, SubA, Stamp(0)), Blank, Garbage, Scalar}

InitBatch ==
    /\ manifest \in SeqsUpTo(LinePool, MaxLines)
    /\ \E workers \in 1..2, only_video \in {<<>>, <<"a">>}, present \in BOOLEAN :
          /\ ~present => manifest = <<>>
          /\ only_video # <<>> => workers = 1
          /\ args = [max_subs |-> 0, similarity_threshold |-> 1,
                     only_video |-> only_video, workers |-> workers,
                     manifest_present |-> present]
    /\ rpc = "load"
    /\ records = <<>>
    /\ tasks = <<>>
    /\ collected = {}
    /\ DriverIdle /\ HashIdle /\ PathIdle /\ TextIdle /\ PipeIdle

NextBatch ==
    \/ RunnerLoad
    \/ RunnerBuild
    \/ RunnerSubmit
    \/ RunnerFinish
    \/ \E i \in TaskIds :
          \/ RunnerCollect(i)
          \/ WorkerStart(i)
          \/ DriverStep(i)

SpecBatch == InitBatch /\ [][NextBatch]_vars

(***************************************************************************)
(* Incremental pipeline orchestrator: pipeline.main, one tick.             *)
(* ppc: "idle", "tick", "acquire", "read", "loop", "sampling", "returned"  *)
(* and "aborted" (an exception left main, for the scheduling loop).        *)
(* The entries of a per-video folder are [base, ext, kind, removable];      *)
(* removable says whether the file system lets the entry be deleted.       *)
(***************************************************************************)
outsidePipe == <<hq, pq, tq, args, rpc, records, tasks, collected>>

\* int(rec.get("created_at", 0)) >= since_ts
IsNew(rec, since_ts) ==
    (IF rec.created_at.given THEN rec.created_at.value ELSE 0) >= since_ts

\* _read_new_records: the records at or after since_ts, or the exception of
\* rec.get on a record that is no object, or of int() on a created_at that
\* is no number.
RECURSIVE ReadNewRecords(_, _)
ReadNewRecords(lines, since_ts) ==
    IF lines = <<>> THEN [raised |-> FALSE, records |-> <<>>]
    ELSE LET line == Head(lines) IN
         IF line.kind = "blank" \/ ~IsJson(line)
         THEN ReadNewRecords(Tail(lines), since_ts)
         ELSE IF line.kind # "object" \/ ~line.created_at.numeric
         THEN [raised |-> TRUE, records |-> <<>>]
         ELSE LET rest == ReadNewRecords(Tail(lines), since_ts)
                  mine == IF IsNew(line, since_ts) THEN <<line>> ELSE <<>>
              IN [raised |-> rest.raised, records |-> mine \o rest.records]

\* The lines whose records _read_new_records returns when it does not raise.
SelectedLines(lines, since_ts) ==
    {j \in 1..Len(lines) :
        lines[j].kind = "object" /\ IsNew(lines[j], since_ts)}

Child(base, ext, kind, removable) ==
    [base |-> base, ext |-> ext, kind |-> kind, removable |-> removable]
FramesZip == Child(<<"f", "r", "a", "m", "e", "s">>, ".zip", "file", TRUE)
Transcript(video) == Child(video.stem, ".txt", "file", TRUE)

SameName(c, d) == c.base = d.base /\ c.ext = d.ext

\* video_path.parent / video_path.stem
VideoFolder(video) == <<video.uploader, video.stem>>

FolderOf(video) ==
    IF VideoFolder(video) \in DOMAIN folder THEN folder[VideoFolder(video)] ELSE {}

\* Replacing the entry of that name: unlink raises on a directory.
Replace(children, new) ==
    IF \E c \in children : SameName(c, new) /\ c.kind = "dir"
    THEN [raised |-> TRUE, children |-> children]
    ELSE [raised |-> FALSE,
          children |-> {c \in children : ~SameName(c, new)} \cup {new}]

\* _prepare_video_folder_and_move_txt: the folder's entries afterwards.
PrepareVideoFolder(children, video, has_txt) ==
    IF has_txt THEN Replace(children, Transcript(video))
    ELSE [raised |-> FALSE, children |-> children]

\* _zip_frames_dir: a previous frames.zip is replaced by the new archive.
ZipFramesDir(children) == Replace(children, FramesZip)

\* Lines 107-110: the entries that the pruning loop passes over.
KeptOrDirectory(child) ==
    Lower(child.ext) \in {".zip", ".txt"} \/ child.kind = "dir"
Kept(child) == Lower(child.ext) \in {".zip", ".txt"}

\* Lines 106-117: rmtree ignores what it cannot delete, and so does the
\* try around unlink.
Prune(children) == {c \in children : Kept(c) \/ ~c.removable}

\* Line 63: the start timestamp.
PipeStart ==
    /\ ppc = "tick"
    /\ start_ts' = now
    /\ ppc' = "acquire"
    /\ UNCHANGED <<th, fs, dirs, log, manifest, now, new_records, ri, folder, txts,
                   tk>>
    /\ UNCHANGED outsidePipe

\* Line 66: video_loader.main(), which appends the records of what it
\* downloaded and stamps each with the time of the write.
PipeAcquire ==
    /\ ppc = "acquire"
    /\ \E later \in now..(now + 1) :
       \E added \in SeqsUpTo({l \in LinePool : l.kind # "blank"},
                             MaxLines - Len(manifest)) :
          /\ now' = later
          /\ manifest' = manifest \o
                [n \in 1..Len(added) |->
                    IF added[n].kind = "object" /\ added[n].created_at = Stamp(0)
                    THEN [added[n] EXCEPT !.created_at = Stamp(later)]
                    ELSE added[n]]
          /\ tk' = [tk EXCEPT !.by = @ \o [n \in 1..Len(added) |-> tk.n]]
    /\ ppc' = "read"
    /\ UNCHANGED <<th, fs, dirs, log, start_ts, new_records, ri, folder, txts>>
    /\ UNCHANGED outsidePipe

\* Lines 68-78: read the new records; return if there is none.
PipeRead ==
    /\ ppc = "read"
    /\ LET read == ReadNewRecords(manifest, start_ts) IN
       IF read.raised
       THEN /\ ppc' = "aborted"
            /\ UNCHANGED <<new_records, dirs, log, tk>>
       ELSE /\ new_records' = read.records
            /\ tk' = [tk EXCEPT !.sel = @ \cup
                         {<<j, tk.n>> : j \in SelectedLines(manifest, start_ts)}]
            /\ IF read.records = <<>>
               THEN /\ ppc' = "returned"
                    /\ Say("pipeline_nothing_new", NoSubject)
                    /\ UNCHANGED dirs
               ELSE /\ ppc' = "loop"
                    /\ dirs' = dirs \cup {RootDir}
                    /\ UNCHANGED log
    /\ ri' = 1
    /\ UNCHANGED <<th, fs, manifest, now, start_ts, folder, txts>>
    /\ UNCHANGED outsidePipe

\* Lines 80-91: the next record; one with a path missing is passed over,
\* the others are handed to process_one_video.
PipeLoop ==
    /\ ppc = "loop"
    /\ IF ri > Len(new_records)
       THEN /\ ppc' = "returned"
            /\ UNCHANGED <<th, ri>>
       ELSE IF ~Eligible(new_records[ri], <<>>)
       THEN /\ ri' = ri + 1
            /\ UNCHANGED <<th, ppc>>
       ELSE /\ th' = [th EXCEPT ![1] =
                        Frame(new_records[ri].video_path,
                              new_records[ri].subtitle_path,
                              0, DefaultThreshold, "start")]
            /\ ppc' = "sampling"
            /\ UNCHANGED ri
    /\ UNCHANGED <<fs, dirs, log, manifest, now, start_ts, new_records, folder, txts,
                   tk>>
    /\ UNCHANGED outsidePipe

\* Lines 93-119: once the driver has returned, archive the frame directory
\* into the per-video folder and prune the folder; an exception of the
\* driver leaves main.
PipeArchive ==
    /\ ppc = "sampling"
    /\ th[1].pc \in {"done", "raised"}
    /\ LET video == th[1].video
           frames_dir == ChooseOutDir(OutRoot, video.uploader, video.stem)
           has_txt == VideoFolder(video) \in txts
       IN IF th[1].pc = "raised"
          THEN /\ ppc' = "aborted"
               /\ UNCHANGED <<log, folder, txts, ri>>
          ELSE IF frames_dir \notin dirs
          THEN /\ Say("pipeline_no_frames_dir", frames_dir.base)
               /\ ppc' = "loop"
               /\ ri' = ri + 1
               /\ UNCHANGED <<folder, txts>>
          ELSE LET prepared == PrepareVideoFolder(FolderOf(video), video, has_txt)
                   zipped == ZipFramesDir(prepared.children)
               IN IF prepared.raised
                  THEN /\ ppc' = "aborted"
                       /\ folder' = (VideoFolder(video) :> FolderOf(video)) @@ folder
                       /\ UNCHANGED <<log, txts, ri>>
                  ELSE IF zipped.raised
                  THEN /\ ppc' = "aborted"
                       /\ folder' = (VideoFolder(video) :> prepared.children) @@ folder
                       /\ txts' = txts \ {VideoFolder(video)}
                       /\ UNCHANGED <<log, ri>>
                  ELSE /\ folder' = (VideoFolder(video) :> Prune(zipped.children))
                                        @@ folder
                       /\ txts' = txts \ {VideoFolder(video)}
                       /\ Say("pipeline_done", video.stem)
                       /\ ppc' = "loop"
                       /\ ri' = ri + 1
    /\ UNCHANGED <<th, fs, dirs, manifest, now, start_ts, new_records, tk>>
    /\ UNCHANGED outsidePipe

(***************************************************************************)
(* SpecPipe: one tick of the orchestrator.                                 *)
(***************************************************************************)
\* What a per-video folder may hold before the tick.
ChildPool ==
    {FramesZip, Child(<<"f", "r", "a", "m", "e", "s">>, ".zip", "dir", TRUE),
     Child(<<"o", "l", "d">>, ".ZIP", "file", TRUE),
     Child(<<"n", "o", "t", "e">>, ".txt", "file", TRUE),
     Child(<<"j", "u", "n", "k">>, ".jpg", "file", TRUE),
     Child(<<"l", "o", "c", "k">>, ".jpg", "file", FALSE),
     Child(<<"t", "m", "p">>, "", "dir", TRUE)}

OldLinePool ==
    {Object(VideoB, SubB, Stamp(4)), Object(VideoA, SubA, Stamp(5)),
     Object(VideoB, SubB, NoStamp), Object(VideoB, SubB, BadStamp), Garbage}

InitPipe ==
    /\ ppc = "tick"
    /\ now = 5
    /\ start_ts = 0
    /\ new_records = <<>>
    /\ ri = 1
    /\ manifest \in SeqsUpTo(OldLinePool, MaxLines - 1)
    /\ tk = [n |-> 1, by |-> [j \in 1..Len(manifest) |-> 0], sel |-> {}]
    /\ \E before \in SUBSET ChildPool :
          /\ Cardinality(before) <= 1
          /\ folder = IF before = {} THEN <<>>
                      ELSE (VideoFolder(VideoA) :> before)
    /\ txts \in SUBSET {VideoFolder(VideoA)}
    /\ args = NoArgs
    /\ rpc = "idle"
    /\ records = <<>>
    /\ tasks = <<>>
    /\ collected = {}
    /\ DriverIdle /\ HashIdle /\ PathIdle /\ TextIdle

NextPipe ==
    \/ PipeStart
    \/ PipeAcquire
    \/ PipeRead
    \/ PipeLoop
    \/ PipeArchive
    \/ DriverStep(1)

SpecPipe == InitPipe /\ [][NextPipe]_vars

(***************************************************************************)
(* SpecTicks: the scheduling loop of pipeline.py, tick after tick.         *)
(***************************************************************************)
InitTicks ==
    /\ ppc = "tick"
    /\ now = 5
    /\ start_ts = 0
    /\ new_records = <<>>
    /\ ri = 1
    /\ manifest \in SeqsUpTo(OldLinePool, MaxLines - 1)
    /\ tk = [n |-> 1, by |-> [j \in 1..Len(manifest) |-> 0], sel |-> {}]
    /\ folder = <<>>
    /\ txts = {}
    /\ args = NoArgs
    /\ rpc = "idle"
    /\ records = <<>>
    /\ tasks = <<>>
    /\ collected = {}
    /\ DriverIdle /\ HashIdle /\ PathIdle /\ TextIdle

\* Lines 132-142: main has returned, or its exception was caught and its
\* trace printed; the loop sleeps 2 s, then until the next midnight, and
\* calls main again.
SchedulerNext ==
    /\ ppc \in {"returned", "aborted"}
    /\ tk.n < MaxTicks
    /\ \E wait \in 2..3 : now' = now + wait
    /\ ppc' = "tick"
    /\ tk' = [tk EXCEPT !.n = @ + 1]
    /\ UNCHANGED <<th, fs, dirs, log, manifest, start_ts, new_records, ri, folder,
                   txts>>
    /\ UNCHANGED outsidePipe

NextTicks ==
    \/ PipeStart
    \/ PipeAcquire
    \/ PipeRead
    \/ PipeLoop
    \/ PipeArchive
    \/ DriverStep(1)
    \/ SchedulerNext

SpecTicks == InitTicks /\ [][NextTicks]_vars

(***************************************************************************)
(* Claims.                                                                 *)
(***************************************************************************)
\* The number of positions at which two equally long encodings differ.
Differing(a, b) == Cardinality({n \in 1..Len(a) : a[n] # b[n]})

\* C4: for a computable candidate fingerprint, is_similar_to_previous answers
\* true exactly when some prior fingerprint differs from the candidate in at
\* most threshold characters; with no prior fingerprint it answers false.
C4_DedupDecision ==
    (hq.asked /\ hq.current_hash # None) =>
        /\ hq.answer = (\E p \in hq.previous_hashes :
                            Differing(hq.current_hash, p) <= hq.threshold)
        /\ hq.previous_hashes = {} => ~hq.answer

\* A prior fingerprint at distance exactly threshold, none nearer: similar.
C4_Witness ==
    /\ hq.asked /\ hq.answer /\ hq.current_hash # None /\ hq.threshold > 0
    /\ \A p \in hq.previous_hashes :
          Differing(hq.current_hash, p) >= hq.threshold

\* The clamped start time of the entry the loop of th[i] stands at.
ClampedStart(f, n) == StartTime(f.entries[n], f.duration)

\* The driver frame stands at the head of the loop, before an entry that
\* falls inside the warm-up window.
AtWarmUpEntry(f) ==
    /\ f.pc = "entry"
    /\ f.idx <= f.total
    /\ ClampedStart(f, f.idx) < WarmUp

\* C3: extraction is attempted only for entries whose clamped start is at
\* least 10.0 s, and the step that passes over an entry inside the warm-up
\* window calls no extractor, creates or deletes no file and changes neither
\* counter.
C3_WarmUpFilter ==
    /\ [](\A n \in th[1].tried : ClampedStart(th[1], n) >= WarmUp)
    /\ [][AtWarmUpEntry(th[1]) =>
             /\ fs' = fs
             /\ dirs' = dirs
             /\ th'[1].tried = th[1].tried
             /\ th'[1].calls = th[1].calls
             /\ th'[1].judged = th[1].judged
             /\ th'[1].saved_count = th[1].saved_count
             /\ th'[1].skipped_count = th[1].skipped_count
             /\ th'[1].saved_hashes = th[1].saved_hashes]_vars

\* An entry at 9.99 s was passed over and a later one was extracted.
C3_Witness ==
    /\ th[1].pc = "done"
    /\ th[1].tried = {2}
    /\ th[1].total = 2
    /\ ClampedStart(th[1], 1) < WarmUp
    /\ th[1].saved_count > 0

\* The timestamp and the output path of frame k of entry n of a driver frame.
FrameTime(f, n, k) == TimePoints(f.entries[n], f.duration)[k]
FramePath(f, n, k) == <<f.out_dir, FrameName(FrameTime(f, n, k), Roles[k])>>

\* The extractor calls recorded for one frame are as the retry rule allows.
CallsBounded(f) ==
    LET c == f.calls IN
    /\ Len(c) <= 2
    /\ \A j \in 1..Len(c) :
          /\ c[j].idx = c[1].idx /\ c[j].k = c[1].k
          /\ c[j].out = FramePath(f, c[1].idx, c[1].k)
    /\ Len(c) >= 1 => c[1].t = FrameTime(f, c[1].idx, c[1].k)
    /\ Len(c) = 2 => /\ ~c[1].ok
                     /\ c[1].t > 0
                     /\ c[2].t = Max(0, c[1].t - RetryBack)
    /\ (Len(c) = 1 /\ f.pc # "retry") => (c[1].ok \/ c[1].t <= 0)
    /\ f.pc \in {"similar", "delete", "accept"} => (c # <<>> /\ c[Len(c)].ok)

\* C5: per frame the driver calls the extractor once at t, a second time
\* exactly when the first call failed and t > 0, then at max(0, t - 0.2) and
\* to the same path, and never a third time; a frame that still failed gets
\* no similarity check and changes no counter, and the driver goes on with
\* the next frame or entry.
C5_BoundedRetry ==
    /\ [](CallsBounded(th[1]))
    /\ [][(th[1].pc \in {"extract", "retry"} /\ th'[1].pc \notin {"retry", "similar"})
            => /\ ~th'[1].ok
               /\ th'[1].pc \in {"extract", "entry"}
               /\ <<th'[1].idx, th'[1].k>> # <<th[1].idx, th[1].k>>
               /\ th'[1].judged = th[1].judged
               /\ th'[1].saved_count = th[1].saved_count
               /\ th'[1].skipped_count = th[1].skipped_count
               /\ th'[1].saved_hashes = th[1].saved_hashes]_vars

\* Both calls for a frame failed and the driver stands at the next frame.
C5_Witness ==
    /\ Len(th[1].calls) = 2
    /\ ~th[1].calls[2].ok
    /\ th[1].pc = "extract"
    /\ th[1].k = th[1].calls[1].k + 1

\* The entries that survive the warm-up filter.
Retained(f) == {n \in 1..Len(f.entries) : ClampedStart(f, n) >= WarmUp}

\* C6: when the driver has returned, extraction was attempted for
\* min(max_subs, R) entries if max_subs > 0 and for all R retained entries
\* if max_subs = 0, R being the number of entries outside the warm-up window.
C6_MaxEntriesBoundsRetained ==
    (th[1].pc = "done" /\ th[1].entries # <<>>) =>
        Cardinality(th[1].tried) =
            IF th[1].max_subs > 0
            THEN Min(th[1].max_subs, Cardinality(Retained(th[1])))
            ELSE Cardinality(Retained(th[1]))

\* A task raised only for a cause of its own: an unsupported subtitle suffix
\* or a fault of the environment met by that very call.
OwnCause(f) == ParseSubtitles(f.sub).raised \/ f.faults > 0

\* C1: an error raised by a task is caught and logged at the runner and never
\* leaves the batch; when the runner returns every submitted task has
\* resolved, a task having raised only for a cause of its own; and neither
\* the step in which a task raises nor the step that collects its error
\* changes a file, a directory or the frame of any other task.
C1_BatchIsolation ==
    /\ [](Submitted # {} => rpc # "crashed")
    /\ []((rpc = "returned" /\ tasks # <<>>) =>
            \A i \in 1..Len(tasks) :
               /\ th[i].pc \in {"done", "raised"}
               /\ th[i].pc = "raised" =>
                     (OwnCause(th[i]) /\ <<"error_thread", th[i].error.names>> \in log))
    /\ [][\A i \in TaskIds :
            (th[i].pc # "raised" /\ th'[i].pc = "raised") =>
               /\ fs' = fs /\ dirs' = dirs
               /\ rpc' = rpc /\ collected' = collected
               /\ \A j \in TaskIds \ {i} : th'[j] = th[j]]_vars
    /\ [][\A i \in TaskIds :
            (i \in collected' \ collected /\ th[i].pc = "raised") =>
               /\ th' = th /\ fs' = fs /\ dirs' = dirs
               /\ rpc' = "collect"]_vars

\* One task raised, its sibling returned after saving a frame, and the
\* runner has returned.
C1_Witness ==
    /\ rpc = "returned"
    /\ Len(tasks) = 2
    /\ \E i, j \in 1..2 :
          /\ th[i].pc = "raised"
          /\ th[j].pc = "done" /\ th[j].saved_count > 0

\* C2: the runner has returned, or has printed its completion line, only if
\* every submitted task has resolved by returning or raising; a submitted
\* task is never withdrawn.
C2_CompletesAfterAll ==
    /\ []((rpc = "returned" \/ <<"all_done", NoSubject>> \in log) =>
             /\ Submitted \subseteq Resolved
             /\ tasks # <<>> => Submitted = 1..Len(tasks))
    /\ [][\A i \in TaskIds :
            /\ th[i].pc # "idle" => th'[i].pc # "idle"
            /\ th[i].pc \in {"done", "raised"} => th'[i] = th[i]
            /\ (th[i].pc = "queued" /\ th'[i].pc # "queued") => th'[i].pc = "start"]_vars

\* Two tasks ran on two workers and the runner reported completion.
C2_Witness ==
    /\ <<"all_done", NoSubject>> \in log
    /\ args.workers = 2
    /\ Len(tasks) = 2
    /\ \A i \in 1..2 : th[i].pc = "done" /\ th[i].saved_count > 0

(***************************************************************************)
(* The orchestrator's claims, on SpecPipe.                                 *)
(***************************************************************************)
PastRead == ppc \in {"loop", "sampling", "returned", "aborted"}

NewAndParseable(line) ==
    /\ line.kind = "object"
    /\ line.created_at.numeric
    /\ (IF line.created_at.given THEN line.created_at.value ELSE 0) >= start_ts

\* C7: once acquisition is over, the records fed to sampling are exactly the
\* parseable manifest records stamped at or after the tick's start timestamp
\* (no stamp counts as 0); no older record is sampled; and with no such
\* record the tick ends without the driver, a directory or an archive.
C7_IncrementalBoundary ==
    /\ PastRead => new_records = SelectSeq(manifest, NewAndParseable)
    /\ ppc = "sampling" => NewAndParseable(new_records[ri])
    /\ (PastRead /\ SelectSeq(manifest, NewAndParseable) = <<>>) =>
          /\ th[1].pc = "idle"
          /\ dirs = {}
          /\ \A line \in log : line[1] # "pipeline_done"

Archived(key) ==
    /\ key \in DOMAIN folder
    /\ \E n \in 1..Len(new_records) :
          /\ new_records[n].video_path # NoVideo
          /\ VideoFolder(new_records[n].video_path) = key
          /\ <<"pipeline_done", new_records[n].video_path.stem>> \in log

ArchivingStep ==
    /\ ppc = "sampling" /\ ppc' = "loop"
    /\ ChooseOutDir(OutRoot, th[1].video.uploader, th[1].video.stem) \in dirs

PastBuild == rpc \in {"submit", "collect", "returned"} /\ records # <<>>

Names(line, video) ==
    video # NoVideo /\ line[2] # NoSubject /\ Contains(line[2], video.stem)

Dropped(rec) ==
    /\ rec.kind = "object"
    /\ \/ rec.video_path = NoVideo \/ rec.subtitle_path = NoSub
       \/ ~rec.video_path.present \/ ~rec.subtitle_path.present

\* C9: every skip or degraded path of a video leaves a diagnostic line that
\* identifies the video: a record dropped for a missing path, a subtitle
\* file without entries, a failed duration probe, an entry inside the
\* warm-up window, a frame absent after both attempts, a near-duplicate
\* deleted, a hash that could not be computed, a task whose exception the
\* runner caught.
C9_NoSilentFailure ==
    /\ PastBuild =>
          \A n \in 1..Len(records) :
              Dropped(records[n]) =>
                  \E line \in log :
                      \/ Names(line, records[n].video_path)
                      \/ /\ records[n].subtitle_path # NoSub
                         /\ line[2] = records[n].subtitle_path.path
    /\ \A i \in TaskIds :
          LET f == th[i] IN
          /\ (f.pc = "done" /\ f.entries = <<>>) =>
                <<"skip_no_entries", f.sub.path>> \in log
          /\ (f.pc \notin {"idle", "start", "raised"} /\ f.entries # <<>>
              /\ f.duration <= 0) => <<"warn_duration", f.video.stem>> \in log
          /\ (f.pc = "done" /\ \E n \in 1..f.total : ClampedStart(f, n) < WarmUp)
                => \E line \in log : line[1] = "skip_warmup" /\ Names(line, f.video)
          /\ (\E n \in 2..Len(f.calls) :
                  /\ ~f.calls[n].ok
                  /\ f.calls[n - 1].idx = f.calls[n].idx
                  /\ f.calls[n - 1].k = f.calls[n].k)
                => \E line \in log : line[1] = "ffmpeg_failed" /\ Names(line, f.video)
          /\ (f.skipped_count > 0) => <<"skip_similar", f.video.stem>> \in log
          /\ (i \in collected /\ f.pc = "raised")
                => \E line \in log : line[1] = "error_thread" /\ Names(line, f.video)

WellFormed(line) == line.kind = "object" /\ line.created_at.numeric

TaskOf(rec) == [video |-> rec.video_path, sub |-> rec.subtitle_path]

RECURSIVE TasksOf(_)
TasksOf(recs) ==
    IF recs = <<>> THEN <<>>
    ELSE (IF WellFormed(Head(recs)) /\ Eligible(Head(recs), args.only_video)
          THEN <<TaskOf(Head(recs))>> ELSE <<>>) \o TasksOf(Tail(recs))

\* C10: a line that is no record (no JSON, JSON that is no object, a stamp
\* that is no number) is dropped without raising; it never aborts the batch
\* run or the orchestrator's read, and every well-formed record of the other
\* lines still becomes a task when its paths exist.
C10_MalformedLinesSkipped ==
    /\ rpc # "crashed"
    /\ ~(ppc = "aborted" /\ th[1].pc = "idle")
    /\ (rpc \in {"submit", "collect"} \/ (rpc = "returned" /\ args.manifest_present))
          => tasks = TasksOf(manifest)

(***************************************************************************)
(* The output path resolver, on SpecPath.                                  *)
(***************************************************************************)
\* The characters of the path root/uploader/base.
Joined(d) ==
    d.root \o (IF d.uploader = <<>> THEN <<>> ELSE <<"/">> \o d.uploader)
           \o (IF d.base = <<>> THEN <<>> ELSE <<"/">> \o d.base)

IsFallback(d) ==
    Len(d.base) = 12 /\ SubSeq(d.base, 1, 4) = <<"v", "i", "d", "_">>

\* C12: the path _choose_out_dir returns is at most 230 characters long for
\* every root, uploader and base name; the vid_{hash8} fallback is returned
\* whenever root/uploader/base would be longer, and is itself within the bound.
C12_PathLengthBound ==
    pq.asked =>
        /\ Len(Joined(pq.d)) <= 230
        /\ IsFallback(pq.d) => Len(Joined(pq.d)) <= 230
        /\ (Len(pq.out_root) + 1 + Min(Len(pq.uploader), 40)
                + 1 + Min(Len(pq.base), 80) > 230
             /\ \A n \in 1..Len(pq.uploader) : pq.uploader[n] = "u"
             /\ \A m \in 1..Len(pq.base) : pq.base[m] = "b"
             /\ pq.uploader # <<>>)
              => IsFallback(pq.d)

(***************************************************************************)
(* Concurrent tasks and their frame files, on SpecBatch.                   *)
(***************************************************************************)
\* The task has called the extractor for its current frame and has not yet
\* kept or deleted the file.
InFlight(i) == th[i].pc \in {"retry", "similar", "delete", "accept"}

\* C13: whatever the manifest, duplicates and colliding output directories
\* included, no two tasks running at the same time write, overwrite or delete
\* the same frame file path.
C13_NoSharedFramePath ==
    \A i, j \in TaskIds :
        (i # j /\ InFlight(i) /\ InFlight(j)) => OutImg(th[i]) # OutImg(th[j])

(***************************************************************************)
(* Accepted frames, on SpecVideo.                                          *)
(***************************************************************************)
KeptPaths(f) == {r.out : r \in f.kept}

FramesPresent(f) ==
    {path \in DOMAIN fs : path[1] = f.out_dir /\ fs[path] # EmptyFile}

\* C14: a frame accepted and counted as saved is never written or deleted
\* again by the same call, not even by a later entry whose clamped time and
\* role give the same file name; so, from an empty output directory, the
\* frame files present at the summary are as many as the saved count.
C14_AcceptedFrameUntouched ==
    LET f == th[1] IN
    /\ InFlight(1) => OutImg(f) \notin KeptPaths(f)
    /\ \A path \in KeptPaths(f) : path \in DOMAIN fs
    /\ f.pc \in {"summary", "done"} =>
          Cardinality(FramesPresent(f)) = f.saved_count

(***************************************************************************)
(* Reprocessing, on SpecTwice.                                             *)
(***************************************************************************)
\* C11: with a deterministic extractor and fingerprint function, a second
\* call with the same arguments leaves the same frame files, names and
\* contents, as the first and reports the same saved and skipped counts.
C11_IdempotentReprocessing ==
    th[2].pc = "done" =>
        /\ DOMAIN fs = DOMAIN th[2].before
        /\ \A path \in DOMAIN fs : fs[path] = th[2].before[path]
        /\ th[2].saved_count = th[1].saved_count
        /\ th[2].skipped_count = th[1].skipped_count

\* Both calls have returned, having saved a frame and skipped another.
C11_Witness ==
    /\ th[2].pc = "done"
    /\ th[2].saved_count > 0
    /\ th[2].skipped_count > 0
    /\ DOMAIN fs # {}

(***************************************************************************)
(* Isolation of the records of one tick, on SpecPipe.                      *)
(***************************************************************************)
\* A record that sampling and archiving can handle: both paths exist, the
\* subtitle format is supported and the file has entries.
Sound(rec) ==
    /\ Eligible(rec, <<>>)
    /\ ~ParseSubtitles(rec.subtitle_path).raised
    /\ rec.subtitle_path.entries # <<>>

\* C15: an error raised while one record of the tick is sampled or archived
\* does not keep the other new records from being sampled and archived: the
\* tick ends with each of them archived.
C15_PerVideoIsolation ==
    (ppc = "aborted" /\ th[1].pc # "idle") =>
        \A n \in 1..Len(new_records) :
            (n # ri /\ Sound(new_records[n])) =>
                <<"pipeline_done", new_records[n].video_path.stem>> \in log

(***************************************************************************)
(* Creation of the output directory, on SpecPipe, for the first record of  *)
(* the tick (no earlier call can have created the directory).              *)
(***************************************************************************)
\* C16: the driver creates the output directory no earlier than the first
\* frame write; when no extraction is attempted (no entries, or every entry
\* inside the warm-up window) the directory is not created, and the
\* orchestrator, finding it absent, does not archive the video.
C16_LazyOutputDir ==
    /\ (ppc = "sampling" /\ ri = 1 /\ th[1].out_dir \in dirs) =>
            th[1].tried # {}
    /\ (ppc = "loop" /\ ri = 2 /\ th[1].pc = "done" /\ th[1].tried = {}) =>
            /\ ChooseOutDir(OutRoot, th[1].video.uploader, th[1].video.stem)
                   \notin dirs
            /\ <<"pipeline_done", th[1].video.stem>> \notin log

(***************************************************************************)
(* The report of extract_frame against what its transcoder runs wrote, on  *)
(* SpecVideo, over the recorded calls of the video.                        *)
(***************************************************************************)
\* C17: whenever extract_frame returns true, the file at the output path
\* was written by a transcoder run of that same call; a file left there by
\* an earlier call never makes a call report success on its own.
C17_NoStaleSuccess ==
    \A n \in 1..Len(th[1].calls) :
        th[1].calls[n].ok => th[1].calls[n].wrote

(***************************************************************************)
(* The order of extraction and judgement inside one call of the driver,    *)
(* and the origin of the fingerprints it compares against, on SpecBatch.   *)
(***************************************************************************)
\* Frame k of entry n comes before the frame the call is at.
Earlier(f, n, k) ==
    \/ n < f.idx
    \/ n = f.idx /\ f.pc # "entry" /\ k < f.k

\* The fingerprints of the pictures the video of the call shows at the times
\* the call extracts at, retries included.
OwnFingerprints(f) ==
    {HexStr(PHash(ImageAt(f.video, t)), HashChars) :
        t \in UNION {{FrameTime(f, n, k), RetryTime(FrameTime(f, n, k))} :
                        n \in 1..f.total, k \in 1..3}}

\* C18: within one video frames are extracted and judged one after the
\* other, in subtitle order and start, mid, end inside an entry; the decision
\* for a frame is complete before the next extraction begins, so a decision
\* sees exactly the fingerprints of the earlier accepted frames of that video
\* and none of another video.
C18_SequentialJudging ==
    \A i \in TaskIds :
        LET f == th[i] IN
        f.pc \in {"entry", "extract", "retry", "similar", "delete", "accept",
                  "summary", "done"} =>
            /\ f.judged = f.saved_count + f.skipped_count
                             + (IF f.pc \in {"delete", "accept"} THEN 1 ELSE 0)
            /\ \A r \in f.kept :
                   \E n \in 1..f.total, k \in 1..3 :
                       Earlier(f, n, k) /\ r.out = FramePath(f, n, k)
            /\ f.saved_hashes = {r.hash : r \in f.kept} \ {None}
            /\ f.saved_hashes \subseteq OwnFingerprints(f)

(***************************************************************************)
(* The timestamps of an entry against its raw times and the probed         *)
(* duration, on SpecVideo.                                                 *)
(***************************************************************************)
\* start <= mid <= end, none negative, none past the last instant of a video
\* of known duration; the raw times and their midpoint when it is unknown.
Clamped(e, duration, times) ==
    /\ 0 <= times[1] /\ times[1] <= times[2] /\ times[2] <= times[3]
    /\ duration > 0 =>
          \A k \in 1..3 : times[k] <= Max(duration - Epsilon, 0)
    /\ duration = 0 =>
          /\ times[1] = Max(e.start, 0)
          /\ times[3] = Max(e.end, 0)
          /\ 2 * times[2] = times[1] + times[3]

\* C19: for every entry the driver processes the computed timestamps satisfy
\* 0 <= start <= mid <= end; with a known duration all three are at most
\* max(duration - 0.01, 0); with an undeterminable duration processing goes
\* on, start and end are the entry's raw times and mid their midpoint, and
\* extraction is still attempted for the entries past the warm-up window.
C19_ClampingInvariant ==
    LET f == th[1] IN
    /\ \A n \in 1..f.total :
           Clamped(f.entries[n], f.duration, TimePoints(f.entries[n], f.duration))
    /\ InFlight(1) \/ f.pc = "extract" =>
           Clamped(f.entries[f.idx], f.duration, f.times)
    /\ f.duration = 0 =>
           \A n \in 1..f.total :
               (n < f.idx /\ f.entries[n].start >= WarmUp) => n \in f.tried

\* An entry at 30-32 s of a video of 13 s is extracted at 12.99 s thrice.
C19_Witness ==
    /\ th[1].pc = "similar"
    /\ th[1].duration = 2600
    /\ th[1].entries[th[1].idx] = Entry(6000, 6400)
    /\ th[1].times = <<2598, 2598, 2598>>
    /\ th[1].k = 3

(***************************************************************************)
(* A frame whose fingerprint cannot be computed, on SpecVideo.  The file   *)
(* of an extracted frame is there and not empty, so the computation fails  *)
(* exactly in the steps that meet an unreadable file, which count a fault. *)
(***************************************************************************)
\* The fingerprint computation of the step fails.
HashFails == th'[1].faults > th[1].faults

\* The call has moved on to the frame after the current one.
AtNextFrame ==
    IF th[1].k < 3
    THEN th'[1].pc = "extract" /\ th'[1].idx = th[1].idx /\ th'[1].k = th[1].k + 1
    ELSE th'[1].pc = "entry" /\ th'[1].idx = th[1].idx + 1

\* C20: for a successfully extracted frame whose fingerprint computation
\* fails the frame file is kept, the saved counter grows by exactly one, the
\* skipped counter and the set of accepted fingerprints stay as they are and
\* processing continues with the next frame; the frame is never deleted as a
\* near-duplicate.
C20_FailOpenOnFingerprintFailure ==
    /\ [][(th[1].pc = "similar" /\ HashFails) =>
             /\ th'[1].pc = "accept"
             /\ fs' = fs
             /\ th'[1].saved_count = th[1].saved_count
             /\ th'[1].skipped_count = th[1].skipped_count
             /\ th'[1].saved_hashes = th[1].saved_hashes]_vars
    /\ [][(th[1].pc = "accept" /\ HashFails) =>
             /\ fs' = fs
             /\ ExistsNonEmpty(fs', OutImg(th[1]))
             /\ th'[1].saved_count = th[1].saved_count + 1
             /\ th'[1].skipped_count = th[1].skipped_count
             /\ th'[1].saved_hashes = th[1].saved_hashes
             /\ AtNextFrame]_vars

\* The mid frame of a still video is kept without a fingerprint beside the
\* start frame, whose fingerprint it would have matched.
C20_Witness ==
    LET f == th[1] IN
    /\ f.video.still
    /\ f.pc = "extract" /\ f.idx = 1 /\ f.k = 3
    /\ \E r1, r2 \in f.kept :
          /\ r1.out = FramePath(f, 1, 1) /\ r1.hash # None
          /\ r2.out = FramePath(f, 1, 2) /\ r2.hash = None
          /\ r1.out # r2.out
          /\ ExistsNonEmpty(fs, r2.out)
    /\ f.saved_count = 2 /\ f.skipped_count = 0
    /\ Cardinality(f.saved_hashes) = 1
    /\ <<"save_unhashed", f.video.stem>> \in log

(***************************************************************************)
(* Malformed timing text, on SpecParse.                                    *)
(***************************************************************************)
\* C21: parsing a file with a recognized extension (.vtt or .srt) never
\* raises because of malformed timing text: a time line that is malformed is
\* skipped or degraded, a timestamp that cannot be parsed counts as 0.0, and
\* every returned entry satisfies end > start.
C21_MalformedTimingNeverRaises ==
    (tq.asked /\ Lower(tq.suffix) \in {".vtt", ".srt"}) =>
        /\ ~tq.raised
        /\ \A n \in 1..Len(tq.entries) :
               /\ tq.entries[n].end > tq.entries[n].start
               /\ tq.entries[n].start >= 0

(***************************************************************************)
(* The set of accepted fingerprints, on SpecVideo.                         *)
(***************************************************************************)
\* C22: in every reachable state of process_one_video any two distinct
\* fingerprints in saved_hashes are at Hamming distance greater than the
\* threshold: a fingerprint is added only after it was found farther than
\* the threshold from every fingerprint already in the set, also when a
\* computation fails on one call and succeeds on the next for the same image.
C22_SavedHashesFarApart ==
    \A a, b \in th[1].saved_hashes :
        a # b => HammingDistance(a, b) > th[1].similarity_threshold

(***************************************************************************)
(* Selection of the records tick after tick, on SpecTicks.                 *)
(***************************************************************************)
\* Tick n has got past its reading of the manifest, or has ended.
PastSelection(n) ==
    \/ tk.n > n
    \/ tk.n = n /\ ppc \in {"loop", "sampling", "returned", "aborted"}

\* C23: with a monotonic clock and created_at stamped with the time of the
\* write, over any sequence of ticks, those that end with an exception
\* included, each manifest record is selected as new by exactly one tick,
\* the tick whose acquisition run appended it, and by no later tick.
C23_SelectedExactlyOnce ==
    \A j \in 1..Len(manifest) :
        (manifest[j].kind = "object" /\ tk.by[j] > 0) =>
            /\ \A n \in 1..MaxTicks : <<j, n>> \in tk.sel => n = tk.by[j]
            /\ PastSelection(tk.by[j]) => <<j, tk.by[j]>> \in tk.sel

====
